---- MODULE Spec2Model ----
(***************************************************************************)
(* A model of api_client.py: the ApiClient wrapper (auth, get_user,        *)
(* update_user), the helper is_status_ok and the driver main.              *)
(*                                                                         *)
(* Python strings that end up in a URL are sequences of symbols, so that   *)
(* urljoin can split them; a Python int is a natural number; the f-string  *)
(* formatting of either is Format.  A JSON object is a function from its   *)
(* keys to its values (<<>> is the empty object).                          *)
(***************************************************************************)
EXTENDS Naturals, Sequences, FiniteSets, TLC

VARIABLES
    client,   \* the ApiClient object: its _base_url and _session
    calls,    \* one record per invocation of a client method
    session,  \* the exchanges made over the aiohttp session, in order of issue
    stdout,   \* the lines printed so far
    main,     \* the driver main(): its position and local variables
    check     \* the last is_status_ok call of a direct caller: argument and outcome

vars == <<client, calls, session, stdout, main, check>>

----------------------------------------------------------------------------
(* Bounds of the model. *)

\* The longest username / user_id string a caller passes, in symbols.
MaxLen == 2
\* The number of client calls in flight at once in SpecConc.
NumTasks == 2
\* The number of is_status_ok calls a direct caller makes in SpecStatus.
MaxChecks == 2

----------------------------------------------------------------------------
(* Python values. *)

E == <<>>

\* The characters a caller's string is made of: a plain one and the ones
\* urljoin gives a meaning to.
Alphabet == {"a", "/", ".", "?", "#"}

RECURSIVE StringsUpTo(_)
StringsUpTo(n) ==
    IF n = 0 THEN {E}
    ELSE LET shorter == StringsUpTo(n - 1)
         IN  shorter \cup {Append(s, c) : s \in shorter, c \in Alphabet}

PyInt(n) == [int |-> n]
PyStr(s) == [str |-> s]
IsInt(v) == "int" \in DOMAIN v

Digits == <<"0", "1", "2", "3", "4", "5", "6", "7", "8", "9">>

\* str(n) of a non-negative int: its decimal digits.
RECURSIVE Dec(_)
Dec(n) == IF n < 10 THEN <<Digits[n + 1]>>
          ELSE Append(Dec(n \div 10), Digits[(n % 10) + 1])

\* f'{v}': str(v) of an int, the string itself of a str.
Format(v) == IF IsInt(v) THEN Dec(v.int) ELSE v.str

----------------------------------------------------------------------------
(* urllib.parse.urljoin, for a base URL with an empty path, query and      *)
(* fragment and a relative reference without scheme or netloc.             *)

\* The index of the first c in s, or 0.
RECURSIVE FindFrom(_, _, _)
FindFrom(s, c, i) ==
    IF i > Len(s) THEN 0
    ELSE IF s[i] = c THEN i
    ELSE FindFrom(s, c, i + 1)

Find(s, c) == FindFrom(s, c, 1)

\* s.split('/'): the pieces between the slashes, empty ones included.
RECURSIVE Split(_)
Split(s) ==
    LET i == Find(s, "/")
    IN  IF i = 0 THEN <<s>>
        ELSE <<SubSeq(s, 1, i - 1)>> \o Split(SubSeq(s, i + 1, Len(s)))

\* urlsplit of a relative reference: the fragment is what follows the first
\* '#', the query what follows the first '?' of the rest.
UrlSplit(url) ==
    LET h     == Find(url, "#")
        noFr  == IF h = 0 THEN url ELSE SubSeq(url, 1, h - 1)
        fr    == IF h = 0 THEN E ELSE SubSeq(url, h + 1, Len(url))
        q     == Find(noFr, "?")
    IN  [path     |-> IF q = 0 THEN noFr ELSE SubSeq(noFr, 1, q - 1),
         query    |-> IF q = 0 THEN E ELSE SubSeq(noFr, q + 1, Len(noFr)),
         fragment |-> fr]

\* segments[1:-1] = filter(None, segments[1:-1])
FilterMiddle(segs) ==
    IF Len(segs) <= 2 THEN segs
    ELSE <<segs[1]>>
         \o SelectSeq(SubSeq(segs, 2, Len(segs) - 1), LAMBDA g : g # E)
         \o <<segs[Len(segs)]>>

\* The loop removing dot segments.
RECURSIVE Resolve(_, _)
Resolve(segs, acc) ==
    IF segs = <<>> THEN acc
    ELSE LET seg == Head(segs)
         IN  IF seg = <<".", ".">>
             THEN Resolve(Tail(segs),
                          IF acc = <<>> THEN acc ELSE SubSeq(acc, 1, Len(acc) - 1))
             ELSE IF seg = <<".">>
             THEN Resolve(Tail(segs), acc)
             ELSE Resolve(Tail(segs), Append(acc, seg))

\* The path of urljoin(base, ref), as the pieces between its slashes: the
\* path /get-user/a is <<E, <<"get-user">>, <<"a">>>>.
JoinPath(refPath) ==
    LET segments == FilterMiddle(<<E>> \o Split(refPath))
        resolved == Resolve(segments, <<>>)
        last     == segments[Len(segments)]
        closed   == IF last = <<".">> \/ last = <<".", ".">>
                    THEN Append(resolved, E) ELSE resolved
        joined   == IF closed = <<>> \/ closed = <<E>> THEN <<E, E>> ELSE closed
    IN  IF joined[1] # E THEN <<E>> \o joined ELSE joined

urljoin(base, ref) ==
    LET r == UrlSplit(ref)
    IN  [base     |-> base,
         path     |-> JoinPath(r.path),
         query    |-> r.query,
         fragment |-> r.fragment]

----------------------------------------------------------------------------
(* Exceptions and dict access. *)

NoExc == [type |-> "", arg |-> ""]
Exc(type, arg) == [type |-> type, arg |-> arg]

\* d[k]: the value, or KeyError(k).
Subscript(d, k) ==
    IF k \in DOMAIN d THEN [exc |-> NoExc, val |-> <<d[k]>>]
    ELSE [exc |-> Exc("KeyError", k), val |-> <<>>]

----------------------------------------------------------------------------
(* ApiClient. *)

DefaultHost == "http://testapi.ru"
DefaultPort == "80"

\* ApiClient.__init__
ApiClientInit(sess, host, port) ==
    [_base_url |-> <<host, ":", port>>, _session |-> sess]

NoJson == <<>>

\* auth() with the password sent under the key 'password', not 'pass'.
AuthRequestPasswordKey(self, login, password) ==
    [method |-> "GET",
     url    |-> urljoin(self._base_url, <<"auth">>),
     params |-> [login |-> login, password |-> password],
     json   |-> NoJson]

\* The request auth() hands to the session.
AuthRequest(self, login, password) ==
    [method |-> "GET",
     url    |-> urljoin(self._base_url, <<"auth">>),
     params |-> [login |-> login, pass |-> password],
     json   |-> NoJson]

\* The request get_user() hands to the session.
GetUserRequest(self, username, token) ==
    [method |-> "GET",
     url    |-> urljoin(self._base_url, <<"get-user", "/">> \o Format(username)),
     params |-> [token |-> token],
     json   |-> NoJson]

\* The request update_user() hands to the session.
UpdateUserRequest(self, user_id, token, data) ==
    [method |-> "POST",
     url    |-> urljoin(self._base_url,
                        <<"user", "/">> \o Format(user_id) \o <<"/", "update">>),
     params |-> [token |-> token],
     json   |-> <<data>>]

RequestOf(self, op, args) ==
    CASE op = "auth"        -> AuthRequest(self, args.login, args.password)
      [] op = "get_user"    -> GetUserRequest(self, args.username, args.token)
      [] op = "update_user" -> UpdateUserRequest(self, args.user_id, args.token,
                                                 args.data)

\* The status check accepting every 2xx code.
FinishAny2xx(resp) ==
    IF resp.status < 200 \/ resp.status > 299
    THEN [pc |-> "raised", ret |-> <<>>, exc |-> Exc("AssertionError", "")]
    ELSE IF ~resp.body.ok
    THEN [pc |-> "raised", ret |-> <<>>, exc |-> Exc("JSONDecodeError", "")]
    ELSE [pc |-> "returned", ret |-> <<resp.body.json>>, exc |-> NoExc]

\* A method that starts over on a non-200 status instead of failing.
FinishRetry(resp) ==
    IF resp.status # 200
    THEN [pc |-> "idle", ret |-> <<>>, exc |-> NoExc]
    ELSE IF ~resp.body.ok
    THEN [pc |-> "raised", ret |-> <<>>, exc |-> Exc("JSONDecodeError", "")]
    ELSE [pc |-> "returned", ret |-> <<resp.body.json>>, exc |-> NoExc]

\* assert resp.status == 200; return await resp.json()
Finish(resp) ==
    IF resp.status # 200
    THEN [pc |-> "raised", ret |-> <<>>, exc |-> Exc("AssertionError", "")]
    ELSE IF ~resp.body.ok
    THEN [pc |-> "raised", ret |-> <<>>, exc |-> Exc("JSONDecodeError", "")]
    ELSE [pc |-> "returned", ret |-> <<resp.body.json>>, exc |-> NoExc]

IdleCall == [pc |-> "idle", op |-> "", args |-> <<>>, h |-> 0,
             ret |-> <<>>, exc |-> NoExc]

\* The response kept in one place shared by all calls: the latest exchange.
LatestExchange(call) == Len(session)

\* The exchange whose response object the call holds (async with ... as resp).
OwnExchange(call) == call.h

\* The session with one more request issued, not yet answered.
Issued(sess, i, req) == Append(sess, [by |-> i, req |-> req, resp |-> <<>>])

\* A call suspended in "async with self._session.get/post(...) as resp".
Awaiting(op, args, h) ==
    [pc |-> "await", op |-> op, args |-> args, h |-> h, ret |-> <<>>, exc |-> NoExc]

\* A method called: it builds its request and hands it to the session, which
\* issues it; the coroutine is suspended until the response is there.
Invoke(i, op, args) ==
    /\ calls[i].pc = "idle"
    /\ session' = Issued(session, i, RequestOf(client, op, args))
    /\ calls' = [calls EXCEPT ![i] = Awaiting(op, args, Len(session) + 1)]
    /\ UNCHANGED <<client, stdout, main, check>>

\* The call as it is once its response has arrived and it has run to its end.
Resumed(call) ==
    LET f == Finish(session[OwnExchange(call)].resp[1])
    IN  [call EXCEPT !.pc = f.pc, !.ret = f.ret, !.exc = f.exc]

CanResume(call) ==
    /\ call.pc = "await"
    /\ session[OwnExchange(call)].resp # <<>>

----------------------------------------------------------------------------
(* is_status_ok *)

Diagnostic(status) == [text |-> "Request failed with status: ", status |-> status]

\* response.get('status', 'OK'): a missing status taken for success.
is_status_ok_default(response) ==
    LET s == IF "status" \in DOMAIN response THEN response["status"] ELSE "OK"
    IN  IF s = "OK"
        THEN [ret |-> <<TRUE>>, out |-> <<>>, exc |-> NoExc]
        ELSE [ret |-> <<FALSE>>, out |-> <<Diagnostic(s)>>, exc |-> NoExc]

\* response.get('status'): a missing status reported like a wrong one.
is_status_ok_report_missing(response) ==
    LET s == IF "status" \in DOMAIN response THEN response["status"] ELSE "None"
    IN  IF s = "OK"
        THEN [ret |-> <<TRUE>>, out |-> <<>>, exc |-> NoExc]
        ELSE [ret |-> <<FALSE>>, out |-> <<Diagnostic(s)>>, exc |-> NoExc]

is_status_ok(response) ==
    IF "status" \notin DOMAIN response
    THEN [ret |-> <<FALSE>>, out |-> <<>>, exc |-> NoExc]
    ELSE LET s == Subscript(response, "status")
         IN  IF s.exc # NoExc THEN [ret |-> <<>>, out |-> <<>>, exc |-> s.exc]
             ELSE IF s.val[1] = "OK"
             THEN [ret |-> <<TRUE>>, out |-> <<>>, exc |-> NoExc]
             ELSE [ret |-> <<FALSE>>, out |-> <<Diagnostic(s.val[1])>>, exc |-> NoExc]

----------------------------------------------------------------------------
(* The inputs: what callers pass and what a server may answer. *)

Logins == {"test", "login"}
Passwords == {"12345", "qwerty"}
Tokens == {"dsfd79843r32d1d3dx23d32d", "T2"}
Usernames == {PyStr(<<"ivanov">>)} \cup {PyStr(s) : s \in StringsUpTo(MaxLen)}
UserIds == {PyInt(23)} \cup {PyStr(s) : s \in StringsUpTo(MaxLen)}

\* The **data of main's update_user call.
MainFields ==
    [active |-> "1", blocked |-> TRUE, name |-> "Petr Petrovich",
     permissions |-> <<[id |-> 1, permission |-> "comment"]>>]

\* The keyword arguments a caller passes as **data.  Python binds the names
\* user_id and token to the parameters, so they never reach data.
FieldSets == {<<>>, [active |-> "0"], [name |-> "Ivanov Ivan", blocked |-> FALSE],
              MainFields}

\* The JSON objects a server may send: any of status, token and id may be
\* missing.
StatusValues == {"OK", "FAIL", "ok"}
IdValues == {PyInt(23), PyStr(<<"a", "?">>)}

Restrict(f, ks) == [k \in ks |-> f[k]]

JsonObjects ==
    {Restrict([status |-> s, token |-> t, id |-> d], ks) :
        s \in StatusValues, t \in Tokens, d \in IdValues,
        ks \in SUBSET {"status", "token", "id"}}

\* A response body: a JSON object, or something resp.json() cannot decode.
Bodies == {[ok |-> FALSE]} \cup {[ok |-> TRUE, json |-> j] : j \in JsonObjects}

StatusCodes == {200, 201, 404}

Responses == {[status |-> s, body |-> b] : s \in StatusCodes, b \in Bodies}

\* The answers to a direct caller of the client, which relays a body without
\* reading it: fewer bodies are enough.
PlainBodies ==
    {[ok |-> FALSE],
     [ok |-> TRUE, json |-> <<>>],
     [ok |-> TRUE, json |-> [status |-> "FAIL"]],
     [ok |-> TRUE, json |-> [status |-> "OK", token |-> "T2"]]}

PlainResponses == {[status |-> s, body |-> b] : s \in StatusCodes, b \in PlainBodies}

\* What is_status_ok is applied to by a direct caller.
Mappings ==
    JsonObjects \cup {[status |-> s] : s \in {"ok", "", "OK ", "KO"}}

\* The host and port a client is constructed with: the defaults, or those of
\* a test server.
Configs == {<<DefaultHost, DefaultPort>>, <<"http://127.0.0.1", "8080">>}

----------------------------------------------------------------------------
(* The client's methods, called by tasks of their own. *)

CallAuth(i) ==
    \E l \in Logins, p \in Passwords :
        Invoke(i, "auth", [login |-> l, password |-> p])

CallGetUser(i) ==
    \E u \in Usernames, k \in Tokens :
        Invoke(i, "get_user", [username |-> u, token |-> k])

CallUpdateUser(i) ==
    \E u \in UserIds, k \in Tokens, d \in FieldSets :
        Invoke(i, "update_user", [user_id |-> u, token |-> k, data |-> d])

\* The server answers a request it has not answered yet.
Respond(h, answers) ==
    /\ h \in DOMAIN session
    /\ session[h].resp = <<>>
    /\ \E r \in answers : session' = [session EXCEPT ![h].resp = <<r>>]
    /\ UNCHANGED <<client, calls, stdout, main, check>>

\* The response is there: the call checks the status, decodes the body and
\* returns it, or raises.
Resume(i) ==
    /\ CanResume(calls[i])
    /\ calls' = [calls EXCEPT ![i] = Resumed(calls[i])]
    /\ UNCHANGED <<client, session, stdout, main, check>>

MainInit == [pc |-> "start", auth_token |-> <<>>, user_id |-> <<>>, exc |-> NoExc]

InitWith(n) ==
    /\ \E c \in Configs : client = ApiClientInit("session", c[1], c[2])
    /\ calls = [i \in 1..n |-> IdleCall]
    /\ session = <<>>
    /\ stdout = <<>>
    /\ main = MainInit
    /\ check = <<>>

Init == InitWith(1)

Next ==
    \/ \E i \in DOMAIN calls : CallAuth(i)
    \/ \E i \in DOMAIN calls : CallGetUser(i)
    \/ \E i \in DOMAIN calls : CallUpdateUser(i)
    \/ \E h \in DOMAIN session : Respond(h, PlainResponses)
    \/ \E i \in DOMAIN calls : Resume(i)

Spec == Init /\ [][Next]_vars

----------------------------------------------------------------------------
(* Several calls in flight at once on one client and one session. *)

ConcArgs ==
    {<<"auth", [login |-> "test", password |-> "12345"]>>,
     <<"auth", [login |-> "login", password |-> "qwerty"]>>,
     <<"get_user", [username |-> PyStr(<<"ivanov">>), token |-> "T2"]>>,
     <<"update_user", [user_id |-> PyInt(23), token |-> "dsfd79843r32d1d3dx23d32d",
                       data |-> MainFields]>>}

ConcResponses ==
    {[status |-> 200, body |-> [ok |-> TRUE, json |-> [status |-> "OK", token |-> "T2"]]],
     [status |-> 200, body |-> [ok |-> TRUE, json |-> [status |-> "FAIL"]]],
     [status |-> 404, body |-> [ok |-> FALSE]]}

CallAny(i) == \E a \in ConcArgs : Invoke(i, a[1], a[2])

InitConc == InitWith(NumTasks)

NextConc ==
    \/ \E i \in DOMAIN calls : CallAny(i)
    \/ \E h \in DOMAIN session : Respond(h, ConcResponses)
    \/ \E i \in DOMAIN calls : Resume(i)

SpecConc == InitConc /\ [][NextConc]_vars

----------------------------------------------------------------------------
(* is_status_ok called directly. *)

CheckStatus ==
    /\ Len(check) < MaxChecks
    /\ \E response \in Mappings :
          LET r == is_status_ok(response)
          IN  /\ check' = Append(check, [arg |-> response, ret |-> r.ret,
                                         exc |-> r.exc, out |-> r.out])
              /\ stdout' = stdout \o r.out
    /\ UNCHANGED <<client, calls, session, main>>

InitStatus == InitWith(0)

NextStatus == CheckStatus

SpecStatus == InitStatus /\ [][NextStatus]_vars

----------------------------------------------------------------------------
(* The driver main(). *)

MainSteps == <<"auth", "get_user", "update_user">>

Raised(m, exc) == [m EXCEPT !.pc = "raised", !.exc = exc]

\* The arguments of main's three calls.
MainAuthArgs == [login |-> "test", password |-> "12345"]

MainGetUserArgs(auth_token) ==
    [username |-> PyStr(<<"ivanov">>), token |-> auth_token]

\* update_user called with its two positional arguments in the other order.
MainUpdateArgsSwapped(user_id, auth_token) ==
    [user_id |-> PyStr(<<auth_token>>), token |-> user_id, data |-> MainFields]

MainUpdateArgs(user_id, auth_token) ==
    [user_id |-> user_id, token |-> auth_token, data |-> MainFields]

\* The first step's message raised at every step.
StepFailureSame(step) == Exc("Exception", "Authentication failed")

\* The exception main raises when a step's response is not OK.
StepFailure(step) ==
    CASE step = "auth"        -> Exc("Exception", "Authentication failed")
      [] step = "get_user"    -> Exc("Exception", "Unable to receive user data")
      [] step = "update_user" -> Exc("Exception", "Unable to update user data")

\* client = ApiClient(session); response = await client.auth('test', '12345')
MainStart ==
    /\ main.pc = "start"
    /\ calls[1].pc = "idle"
    /\ session' = Issued(session, 1, RequestOf(client, "auth", MainAuthArgs))
    /\ calls' = [calls EXCEPT ![1] = Awaiting("auth", MainAuthArgs, Len(session) + 1)]
    /\ main' = [main EXCEPT !.pc = "auth"]
    /\ UNCHANGED <<client, stdout, check>>

\* auth is over: check the status, take the token, call get_user.
MainAfterAuth ==
    /\ main.pc = "auth"
    /\ CanResume(calls[1])
    /\ LET c  == Resumed(calls[1])
           ok == is_status_ok(c.ret[1])
           tk == Subscript(c.ret[1], "token")
           a  == MainGetUserArgs(tk.val[1])
       IN  IF c.pc = "raised"
           THEN /\ main' = Raised(main, c.exc)
                /\ calls' = [calls EXCEPT ![1] = c]
                /\ UNCHANGED <<session, stdout>>
           ELSE IF ~ok.ret[1]
           THEN /\ main' = Raised(main, StepFailure("auth"))
                /\ calls' = [calls EXCEPT ![1] = c]
                /\ stdout' = stdout \o ok.out
                /\ UNCHANGED session
           ELSE IF tk.exc # NoExc
           THEN /\ main' = Raised(main, tk.exc)
                /\ calls' = [calls EXCEPT ![1] = c]
                /\ UNCHANGED <<session, stdout>>
           ELSE /\ main' = [main EXCEPT !.pc = "get_user", !.auth_token = tk.val]
                /\ session' = Issued(session, 2, RequestOf(client, "get_user", a))
                /\ calls' = [calls EXCEPT ![1] = c,
                                          ![2] = Awaiting("get_user", a, Len(session) + 1)]
                /\ UNCHANGED stdout
    /\ UNCHANGED <<client, check>>

\* get_user is over: check the status, take the id, call update_user.
MainAfterGetUser ==
    /\ main.pc = "get_user"
    /\ CanResume(calls[2])
    /\ LET c  == Resumed(calls[2])
           ok == is_status_ok(c.ret[1])
           id == Subscript(c.ret[1], "id")
           a  == MainUpdateArgs(id.val[1], main.auth_token[1])
       IN  IF c.pc = "raised"
           THEN /\ main' = Raised(main, c.exc)
                /\ calls' = [calls EXCEPT ![2] = c]
                /\ UNCHANGED <<session, stdout>>
           ELSE IF ~ok.ret[1]
           THEN /\ main' = Raised(main, StepFailure("get_user"))
                /\ calls' = [calls EXCEPT ![2] = c]
                /\ stdout' = stdout \o ok.out
                /\ UNCHANGED session
           ELSE IF id.exc # NoExc
           THEN /\ main' = Raised(main, id.exc)
                /\ calls' = [calls EXCEPT ![2] = c]
                /\ UNCHANGED <<session, stdout>>
           ELSE /\ main' = [main EXCEPT !.pc = "update_user", !.user_id = id.val]
                /\ session' = Issued(session, 3, RequestOf(client, "update_user", a))
                /\ calls' = [calls EXCEPT ![2] = c,
                                          ![3] = Awaiting("update_user", a,
                                                          Len(session) + 1)]
                /\ UNCHANGED stdout
    /\ UNCHANGED <<client, check>>

\* update_user is over: check the status; main returns.
MainAfterUpdate ==
    /\ main.pc = "update_user"
    /\ CanResume(calls[3])
    /\ LET c  == Resumed(calls[3])
           ok == is_status_ok(c.ret[1])
       IN  /\ calls' = [calls EXCEPT ![3] = c]
           /\ IF c.pc = "raised"
              THEN /\ main' = Raised(main, c.exc)
                   /\ UNCHANGED stdout
              ELSE IF ~ok.ret[1]
              THEN /\ main' = Raised(main, StepFailure("update_user"))
                   /\ stdout' = stdout \o ok.out
              ELSE /\ main' = [main EXCEPT !.pc = "done"]
                   /\ UNCHANGED stdout
    /\ UNCHANGED <<client, session, check>>

InitMain ==
    /\ client = ApiClientInit("session", DefaultHost, DefaultPort)
    /\ calls = [i \in 1..Len(MainSteps) |-> IdleCall]
    /\ session = <<>>
    /\ stdout = <<>>
    /\ main = MainInit
    /\ check = <<>>

NextMain ==
    \/ MainStart
    \/ MainAfterAuth
    \/ MainAfterGetUser
    \/ MainAfterUpdate
    \/ \E h \in DOMAIN session : Respond(h, Responses)

SpecMain == InitMain /\ [][NextMain]_vars

----------------------------------------------------------------------------
(* Properties. *)

Finished(i) == calls[i].pc \in {"returned", "raised"}
Started(i) == calls[i].pc # "idle"
ExchangeOf(i) == session[calls[i].h]
ResponseOf(i) == ExchangeOf(i).resp[1]
IssuedBy(i) == {h \in DOMAIN session : session[h].by = i}

\* C1: auth, get_user and update_user return a value only when the response's
\* HTTP status is exactly 200; on any other status, other 2xx codes included,
\* the method raises (the assert fails) and returns nothing.
C1_Only200Returns ==
    \A i \in DOMAIN calls :
        Finished(i) =>
            /\ calls[i].pc = "returned" => ResponseOf(i).status = 200
            /\ ResponseOf(i).status # 200 =>
                  /\ calls[i].pc = "raised"
                  /\ calls[i].ret = <<>>
                  /\ calls[i].exc = Exc("AssertionError", "")

C1_Witness ==
    \E i \in DOMAIN calls :
        /\ calls[i].pc = "raised"
        /\ ResponseOf(i).status = 201
        /\ ResponseOf(i).body.ok

\* C2: auth(L, P) issues a GET to /auth of the base URL with exactly the query
\* parameters login=L and pass=P and no body, and on a 200 response with a JSON
\* object it returns that object.
C2_AuthRequestAndResult ==
    \A i \in DOMAIN calls :
        (Started(i) /\ calls[i].op = "auth") =>
            LET x == ExchangeOf(i)
            IN  /\ x.req.method = "GET"
                /\ x.req.url = [base |-> client._base_url, path |-> <<E, <<"auth">>>>,
                                query |-> E, fragment |-> E]
                /\ x.req.params = [login |-> calls[i].args.login,
                                   pass |-> calls[i].args.password]
                /\ x.req.json = NoJson
                /\ (Finished(i) /\ x.resp[1].status = 200 /\ x.resp[1].body.ok) =>
                      /\ calls[i].pc = "returned"
                      /\ calls[i].ret = <<x.resp[1].body.json>>

C2_Witness ==
    \E i \in DOMAIN calls :
        /\ calls[i].op = "auth"
        /\ calls[i].pc = "returned"
        /\ calls[i].ret = <<[status |-> "OK", token |-> "T2"]>>
        /\ calls[i].args = [login |-> "login", password |-> "12345"]

\* C3: get_user(U, K) issues a GET whose path is /get-user/U, U being the one
\* path segment after get-user, and whose only query parameter is token=K, for
\* every U, those containing '/', '..', '?' or '#' included.
C3_UsernameIsOneSegment ==
    \A i \in DOMAIN calls :
        (Started(i) /\ calls[i].op = "get_user") =>
            LET q == ExchangeOf(i).req
            IN  /\ q.method = "GET"
                /\ q.url = [base |-> client._base_url,
                            path |-> <<E, <<"get-user">>, Format(calls[i].args.username)>>,
                            query |-> E, fragment |-> E]
                /\ q.params = [token |-> calls[i].args.token]

\* C4: update_user(user_id, K, **F) issues a POST to /user/{user_id}/update
\* with token=K as the only query parameter and a JSON body equal to F, which
\* holds neither the token nor the user_id.
C4_UpdateRequest ==
    \A i \in DOMAIN calls :
        (Started(i) /\ calls[i].op = "update_user") =>
            LET q == ExchangeOf(i).req
            IN  /\ q.method = "POST"
                /\ q.url = [base |-> client._base_url,
                            path |-> <<E, <<"user">>, Format(calls[i].args.user_id),
                                       <<"update">>>>,
                            query |-> E, fragment |-> E]
                /\ q.params = [token |-> calls[i].args.token]
                /\ q.json = <<calls[i].args.data>>
                /\ {"token", "user_id"} \cap DOMAIN q.json[1] = {}

\* The part of C4 about the body alone: it is exactly F.
UpdateBodyIsData ==
    \A i \in DOMAIN calls :
        (Started(i) /\ calls[i].op = "update_user") =>
            LET q == ExchangeOf(i).req
            IN  /\ q.method = "POST"
                /\ q.params = [token |-> calls[i].args.token]
                /\ q.json = <<calls[i].args.data>>
                /\ {"token", "user_id"} \cap DOMAIN q.json[1] = {}

\* C9: an invocation issues exactly one request over its lifetime: it does
\* not end before the response to that request is there, and a failure ends
\* it without a second request.
C9_OneRequestPerCall ==
    \A i \in DOMAIN calls :
        /\ Cardinality(IssuedBy(i)) <= 1
        /\ Started(i) => IssuedBy(i) = {calls[i].h}
        /\ Finished(i) => ExchangeOf(i).resp # <<>>

C9_Witness ==
    \E i \in DOMAIN calls :
        /\ calls[i].pc = "raised"
        /\ Cardinality(IssuedBy(i)) = 1
        /\ ResponseOf(i).status = 404

\* C10: the client's base URL and session never change and nothing else is
\* stored on the client; with several calls in flight, each call's request is
\* built from its own arguments and each call returns the body of the response
\* to its own request.
C10_State ==
    /\ DOMAIN client = {"_base_url", "_session"}
    /\ \A i \in DOMAIN calls :
          Started(i) =>
              /\ IssuedBy(i) = {calls[i].h}
              /\ ExchangeOf(i).req = RequestOf(client, calls[i].op, calls[i].args)
              /\ Finished(i) =>
                    /\ ExchangeOf(i).resp # <<>>
                    /\ calls[i].pc = "returned" =>
                          /\ ResponseOf(i).body.ok
                          /\ calls[i].ret = <<ResponseOf(i).body.json>>
                    /\ calls[i].pc = "raised" =>
                          (ResponseOf(i).status # 200 \/ ~ResponseOf(i).body.ok)

C10_Isolation == [](C10_State) /\ [][client' = client]_vars

\* Two calls in flight, answered in the other order than issued, with
\* different outcomes.
C10_Witness ==
    \E i, j \in DOMAIN calls :
        /\ calls[i].h < calls[j].h
        /\ calls[i].pc = "returned"
        /\ calls[j].pc = "raised"
        /\ calls[i].op # calls[j].op

\* The status a mapping reports as success, read off the mapping.
StatusIsOK(m) == IF "status" \in DOMAIN m THEN m["status"] = "OK" ELSE FALSE

\* C5: is_status_ok(R) is true exactly when R has the key 'status' with the
\* value "OK", and false when the key is missing or holds anything else.
C5_StatusOkIff ==
    \A k \in DOMAIN check :
        /\ check[k].exc = NoExc
        /\ check[k].ret = <<StatusIsOK(check[k].arg)>>

C5_Witness ==
    /\ Len(check) = 2
    /\ check[1].arg = <<>> /\ check[1].ret = <<FALSE>>
    /\ check[2].arg = [status |-> "OK"] /\ check[2].ret = <<TRUE>>

\* C6 as stated: whenever is_status_ok returns false, the key missing or
\* holding a non-OK value, it has printed a diagnostic; it never raises; when
\* it returns true it prints nothing.
C6_DiagnosticWheneverFalse ==
    \A k \in DOMAIN check :
        /\ check[k].exc = NoExc
        /\ check[k].ret = <<FALSE>> => check[k].out # <<>>
        /\ check[k].ret = <<TRUE>> => check[k].out = <<>>

RECURSIVE Outs(_)
Outs(cs) == IF cs = <<>> THEN <<>> ELSE Head(cs).out \o Outs(Tail(cs))

\* C6 as amended: is_status_ok prints a diagnostic, with the status value,
\* exactly when the key is there and holds a non-OK value; when the key is
\* missing it returns false and prints nothing; it never raises, and prints
\* nothing when it returns true.
C6_DiagnosticOnlyForValue ==
    /\ stdout = Outs(check)
    /\ \A k \in DOMAIN check :
          LET c == check[k]
          IN  /\ c.exc = NoExc
              /\ c.ret = <<TRUE>> => c.out = <<>>
              /\ "status" \notin DOMAIN c.arg => (c.ret = <<FALSE>> /\ c.out = <<>>)
              /\ ("status" \in DOMAIN c.arg /\ c.ret = <<FALSE>>) =>
                    c.out = <<Diagnostic(c.arg["status"])>>

C6_Witness ==
    /\ Len(check) = 2
    /\ check[1].arg = [token |-> "T2"] /\ check[1].ret = <<FALSE>>
    /\ check[2].arg = [status |-> "FAIL"] /\ check[2].ret = <<FALSE>>
    /\ stdout = <<Diagnostic("FAIL")>>

\* Step k of main is over and has failed: the call raised, or its response's
\* status is missing or not OK, or the field main reads next is missing.
StepNeeds == <<{"token"}, {"id"}, {}>>

StepFailed(k) ==
    /\ Finished(k)
    /\ \/ calls[k].pc = "raised"
       \/ ~StatusIsOK(calls[k].ret[1])
       \/ ~(StepNeeds[k] \subseteq DOMAIN calls[k].ret[1])

StepPassed(k) == Finished(k) /\ ~StepFailed(k)

\* The error that names step k: main's message for it.
StepError(k) ==
    CASE k = 1 -> Exc("Exception", "Authentication failed")
      [] k = 2 -> Exc("Exception", "Unable to receive user data")
      [] k = 3 -> Exc("Exception", "Unable to update user data")

\* C7: main issues its requests in the order auth, get_user, update_user; the
\* get_user request is issued only after auth returned a status-OK response and
\* carries that response's token; the update_user request is issued only after
\* get_user returned a status-OK response and carries the same token and that
\* response's id; after a failed step no request is issued.
C7_DriverOrder ==
    /\ Len(session) <= Len(MainSteps)
    /\ \A h \in DOMAIN session :
          /\ session[h].by = h
          /\ calls[h].op = MainSteps[h]
          /\ calls[h].h = h
          /\ \A g \in 1..(h - 1) : StepPassed(g)
    /\ Len(session) >= 1 =>
          session[1].req = AuthRequest(client, "test", "12345")
    /\ Len(session) >= 2 =>
          session[2].req = GetUserRequest(client, PyStr(<<"ivanov">>),
                                          session[1].resp[1].body.json["token"])
    /\ Len(session) >= 3 =>
          session[3].req = UpdateUserRequest(client,
                                             session[2].resp[1].body.json["id"],
                                             session[1].resp[1].body.json["token"],
                                             MainFields)
    /\ \A k \in DOMAIN calls : StepFailed(k) => Len(session) = k

C7_Witness ==
    /\ main.pc = "done"
    /\ Len(session) = 3
    /\ session[1].resp[1].body.json["token"] = "T2"
    /\ session[2].resp[1].body.json =
          [status |-> "OK", id |-> PyInt(23), token |-> "dsfd79843r32d1d3dx23d32d"]
    /\ session[3].req.params = [token |-> "T2"]

\* C8 as stated: whenever a step of main fails, by a non-200 status, by a
\* status missing or not OK, or by a missing token or id, main ends with an
\* error that identifies the failed step.
C8_ErrorNamesStep ==
    \A k \in DOMAIN calls :
        (/\ Finished(k)
         /\ \/ ResponseOf(k).status # 200
            \/ /\ calls[k].pc = "returned"
               /\ \/ ~StatusIsOK(calls[k].ret[1])
                  \/ ~(StepNeeds[k] \subseteq DOMAIN calls[k].ret[1]))
        => /\ main.pc = "raised"
           /\ main.exc = StepError(k)

\* C8 as amended: whenever a step of main fails, main ends with an error and
\* only then; the error names the failed step when the response's status is
\* missing or not OK; when the client method raised it is that method's error
\* (a bare AssertionError on a non-200 status), and when the token or id is
\* missing from a status-OK response it is the KeyError of that key.
C8_ErrorOfStep ==
    /\ main.pc = "raised" => StepFailed(Len(session))
    /\ \A k \in DOMAIN calls :
          StepFailed(k) =>
              /\ main.pc = "raised"
              /\ main.exc =
                    IF calls[k].pc = "raised" THEN calls[k].exc
                    ELSE IF ~StatusIsOK(calls[k].ret[1])
                    THEN StepError(k)
                    ELSE Exc("KeyError", CHOOSE f \in StepNeeds[k] : TRUE)
              /\ calls[k].pc = "raised" =>
                    main.exc \in {Exc("AssertionError", ""), Exc("JSONDecodeError", "")}

C8_Witness ==
    /\ main.pc = "raised"
    /\ main.exc = Exc("Exception", "Unable to receive user data")
    /\ Len(session) = 2
    /\ stdout = <<Diagnostic("FAIL")>>

====
